---- MODULE Spec2Model ----
(***************************************************************************)
(* netaudio: a JACK client that carries interleaved stereo f32 audio over  *)
(* UDP.  main.rs parses the command line and starts either the sender      *)
(* (sender.rs: JACK process callback -> ring buffer -> 480-byte datagrams) *)
(* or the receiver (receiver.rs: datagrams -> ring buffer -> JACK process  *)
(* callback).  The two threads of a pipeline share one jack ring buffer    *)
(* and one mpsc channel.                                                   *)
(*                                                                         *)
(* Byte strings are held run-length encoded.  A run <<1, lo, hi>> stands   *)
(* for the bytes ByteVal(lo), ..., ByteVal(hi-1) of the reference signal,  *)
(* the little-endian bytes of the 32-bit words 0, 1, 2, ...; a run         *)
(* <<0, 0, n>> stands for n zero bytes; a run <<2, lo, hi>> stands for     *)
(* ring-buffer memory that was never written (its bytes are unspecified).  *)
(* The code never branches on a sample's value, so every captured frame    *)
(* and every arriving datagram carries the next words of the reference     *)
(* signal: any byte lost, repeated or moved shows in the run boundaries.   *)
(***************************************************************************)
EXTENDS Integers, Sequences, FiniteSets, TLC

\* ------------------------------------------------------------ constants

RING_BUFFER_SIZE == 16384

PACKET_SIZE == 480

\* size_of::<f32>()
SizeOfF32 == 4

\* [0.0; RING_BUFFER_SIZE * 2]: the callback's scratch buffer, in samples
ScratchLen == RING_BUFFER_SIZE * 2

\* ------------------------------------------------------------ bounds

\* Three schedules are explored.  "free": the two threads interleave in every
\* way, for MaxCycles cycles of the process closure and MaxDatagrams arriving
\* datagrams of any size.  "whole": as "free", with a peer whose datagrams
\* are all whole packets.  "burst": the producing thread (the sender's
\* closure, the receiver's loop) works through MaxPackets packets' worth of
\* audio, and the consuming thread is first scheduled when all but one of
\* them have been produced, after which the two interleave in every way.
MaxCycles == 2

MaxDatagrams == 3

MaxPackets == 36

\* interleave / deinterleave called on their own: slices of at most MaxLen
\* samples drawn from 0 .. MaxSample
MaxLen == 3

MaxSample == 1

\* ------------------------------------------------------------ byte strings

Min(a, b) == IF a < b THEN a ELSE b

Pow256(k) == CASE k = 0 -> 1 [] k = 1 -> 256 [] k = 2 -> 65536 [] OTHER -> 16777216

\* byte j of the reference signal: byte (j % 4) of the little-endian word j \div 4
ByteVal(j) == ((j \div SizeOfF32) \div Pow256(j % SizeOfF32)) % 256

Zeros(n) == IF n = 0 THEN << >> ELSE << <<0, 0, n>> >>

Ref(lo, hi) == IF hi <= lo THEN << >> ELSE << <<1, lo, hi>> >>

Unwritten(lo, hi) == IF hi <= lo THEN << >> ELSE << <<2, lo, hi>> >>

RunLen(run) == run[3] - run[2]

RECURSIVE BLen(_)
BLen(s) == IF s = << >> THEN 0 ELSE RunLen(Head(s)) + BLen(Tail(s))

\* two runs that follow one another in memory and in their source are one run
Joins(a, b) == /\ a[1] = b[1]
               /\ \/ a[1] = 0
                  \/ a[3] = b[2]

JoinRuns(a, b) == IF a[1] = 0 THEN <<0, 0, a[3] + b[3]>> ELSE <<a[1], a[2], b[3]>>

BCatRuns(s, t) ==
    IF s = << >> THEN t
    ELSE IF t = << >> THEN s
    ELSE IF Joins(s[Len(s)], Head(t))
         THEN SubSeq(s, 1, Len(s) - 1) \o <<JoinRuns(s[Len(s)], Head(t))>> \o Tail(t)
         ELSE s \o t

\* s followed by t (each is worked out once, then joined)
BCat(s, t) == CHOOSE st \in {BCatRuns(x, y) : x \in {s}, y \in {t}} : TRUE

RunTake(run, n) == IF run[1] = 0 THEN <<0, 0, n>> ELSE <<run[1], run[2], run[2] + n>>

RunDrop(run, n) == IF run[1] = 0 THEN <<0, 0, run[3] - n>> ELSE <<run[1], run[2] + n, run[3]>>

\* the first n bytes of s (all of s when it is shorter)
RECURSIVE BTake(_, _)
BTake(s, n) ==
    IF n <= 0 \/ s = << >> THEN << >>
    ELSE IF RunLen(Head(s)) <= n
         THEN <<Head(s)>> \o BTake(Tail(s), n - RunLen(Head(s)))
         ELSE <<RunTake(Head(s), n)>>

\* s without its first n bytes
RECURSIVE BDrop(_, _)
BDrop(s, n) ==
    IF n <= 0 \/ s = << >> THEN s
    ELSE IF RunLen(Head(s)) <= n
         THEN BDrop(Tail(s), n - RunLen(Head(s)))
         ELSE <<RunDrop(Head(s), n)>> \o Tail(s)

\* bytes a .. b-1 of s (0-based)
BSub(s, a, b) == BTake(BDrop(s, a), b - a)

\* the value of byte i (0-based) of s; -1 for memory never written
RECURSIVE BAt(_, _)
BAt(s, i) ==
    IF RunLen(Head(s)) <= i THEN BAt(Tail(s), i - RunLen(Head(s)))
    ELSE CASE Head(s)[1] = 0 -> 0
           [] Head(s)[1] = 1 -> ByteVal(Head(s)[2] + i)
           [] OTHER -> -1

IsPrefix(s, t) == BLen(s) <= BLen(t) /\ BTake(t, BLen(s)) = s

\* ------------------------------------------------------------ samples

\* A sample is held as its 32-bit pattern, read as an i32.  The host's
\* samples are the words 1, 2, 3, ... of the reference signal; 0 is 0.0.
\* bytemuck::cast_slice::<f32, u8>: the four bytes of sample v, 0 <= v < 2^29
SampleBytes(v) == IF v = 0 THEN Zeros(SizeOfF32) ELSE Ref(SizeOfF32 * v, SizeOfF32 * v + SizeOfF32)

\* bytemuck::cast_slice(&samples[a-1 .. b]): the bytes of samples a .. b
RECURSIVE CastBytes(_, _, _)
CastBytes(samples, a, b) ==
    IF b < a THEN << >>
    ELSE IF a = b THEN SampleBytes(samples[a])
    ELSE CHOOSE bytes \in {BCat(CastBytes(samples, a, m), CastBytes(samples, m + 1, b)) :
                             m \in {(a + b) \div 2}} : TRUE

\* the 32-bit pattern made of bytes 4i .. 4i+3 of s, little-endian, as an
\* i32 (-1 when a byte is unspecified)
WordAt(s, i) ==
    LET b0 == BAt(s, SizeOfF32 * i)
        b1 == BAt(s, (SizeOfF32 * i) + 1)
        b2 == BAt(s, (SizeOfF32 * i) + 2)
        b3 == BAt(s, (SizeOfF32 * i) + 3)
    IN IF b0 < 0 \/ b1 < 0 \/ b2 < 0 \/ b3 < 0 THEN -1
       ELSE b0 + (256 * b1) + (65536 * b2) + (16777216 * (IF b3 >= 128 THEN b3 - 256 ELSE b3))

\* bytemuck::cast_slice_mut::<f32, u8>: the samples that the bytes s spell
CastSamples(s) ==
    CHOOSE samples \in {[i \in 1..(BLen(x) \div SizeOfF32) |-> WordAt(x, i - 1)] : x \in {s}} : TRUE

\* ------------------------------------------------------------ interleave

\* sender.rs interleave: None (<< >>) for unequal lengths, else Some(<<seq>>)
\* with a[1], b[1], a[2], b[2], ...
interleave(a, b) ==
    IF Len(a) = Len(b)
    THEN << [i \in 1..(2 * Len(a)) |-> IF i % 2 = 1 THEN a[(i + 1) \div 2] ELSE b[i \div 2]] >>
    ELSE << >>

\* mutant: the left channel taken from the odd indices, the right from the even
deinterleaveSwapped(a) ==
    IF Len(a) % 2 = 0
    THEN << << [i \in 1..(Len(a) \div 2) |-> a[2 * i]],
               [i \in 1..(Len(a) \div 2) |-> a[(2 * i) - 1]] >> >>
    ELSE << >>

\* receiver.rs deinterleave: None for an odd length, else Some(<<left, right>>):
\* step_by(2) from index 0, and skip(1).step_by(2)
deinterleave(a) ==
    IF Len(a) % 2 = 0
    THEN << << [i \in 1..(Len(a) \div 2) |-> a[(2 * i) - 1]],
               [i \in 1..(Len(a) \div 2) |-> a[2 * i]] >> >>
    ELSE << >>

\* ------------------------------------------------------------ ring buffer

\* jack's ring buffer rounds the size up to a power of two
RECURSIVE PowerOfTwo(_, _)
PowerOfTwo(sz, p) == IF p >= sz THEN p ELSE PowerOfTwo(sz, 2 * p)

\* RingBuffer::new(size).into_reader_writer(): unwritten memory, both
\* cursors at 0
RingBufferNew(sz) ==
    [size |-> PowerOfTwo(sz, 1),
     buf |-> Unwritten(0, PowerOfTwo(sz, 1)),
     write_ptr |-> 0,
     read_ptr |-> 0]

\* RingBufferReader::space(): the bytes that can be read
ReadSpace(r) == (r.write_ptr - r.read_ptr + r.size) % r.size

\* RingBufferWriter::space(): the bytes that can be written; one byte of
\* the storage always stays free
WriteSpace(r) == r.size - 1 - ReadSpace(r)

\* mutant: the piece that passes the end of the storage is not copied
WriteBufferNoWrap(r, data) ==
    LET to_write == Min(BLen(data), r.size - 1 - ((r.write_ptr - r.read_ptr + r.size) % r.size))
        n1 == Min(to_write, r.size - r.write_ptr)
    IN [r EXCEPT !.buf = BCat(BCat(BTake(r.buf, r.write_ptr), BSub(data, 0, n1)),
                              BDrop(r.buf, r.write_ptr + n1)),
                 !.write_ptr = (r.write_ptr + to_write) % r.size]

\* RingBufferWriter::write_buffer(data): copies min(len, space) bytes at the
\* write cursor, in two pieces when they pass the end of the storage, and
\* advances the cursor modulo the size
WriteBuffer(r, data) ==
    LET to_write == Min(BLen(data), WriteSpace(r))
        n1 == Min(to_write, r.size - r.write_ptr)
        n2 == to_write - n1
        piece1 == BCat(BCat(BTake(r.buf, r.write_ptr), BSub(data, 0, n1)),
                       BDrop(r.buf, r.write_ptr + n1))
        piece2 == BCat(BSub(data, n1, to_write), BDrop(piece1, n2))
    IN [r EXCEPT !.buf = IF to_write = 0 THEN r.buf ELSE piece2,
                 !.write_ptr = (r.write_ptr + to_write) % r.size]

\* RingBufferReader::read_buffer(dest) with a dest of cnt bytes: the bytes
\* copied out, min(cnt, space) of them (read_slice returns the same prefix
\* of dest)
ReadData(r, cnt) ==
    LET to_read == Min(cnt, ReadSpace(r))
        n1 == Min(to_read, r.size - r.read_ptr)
        n2 == to_read - n1
    IN BCat(BSub(r.buf, r.read_ptr, r.read_ptr + n1), BSub(r.buf, 0, n2))

\* ... and the ring buffer it leaves: the read cursor advanced
ReadAdvance(r, cnt) ==
    [r EXCEPT !.read_ptr = (r.read_ptr + Min(cnt, ReadSpace(r))) % r.size]

\* the sequence s begins the sequence t
IsPrefixSeq(s, t) == Len(s) <= Len(t) /\ SubSeq(t, 1, Len(s)) = s

\* ------------------------------------------------------------ state

VARIABLES
    io,          \* interleave / deinterleave called on their own: arguments and results
    argv,        \* env::args() after the program name: the words not yet taken
    args,        \* parse_args' Option<Args>: << >> or <<[bind_addr, send_addr]>>
    mainPc,      \* main: "parse_args", "client_new", "start", "sender", "receiver", "exit"
    stderr,      \* the lines written by eprintln!
    reached,     \* the initialisation steps main has attempted
    sched,       \* the schedule explored: "free", "whole" or "burst"
    host,        \* <<left length, right length>> of the ports' slices in a cycle
    rb,          \* the jack ring buffer shared by the two threads
    chan,        \* the mpsc channel: messages sent and not yet received
    cbPc,        \* the process closure: "idle", "checked", "ready", "quit"
    cb_space,    \* the closure's rb_space
    scratch,     \* the closure's interleave / deinterleave buffer, as bytes
    captured,    \* frames the host has delivered to (sender) or asked of (receiver) the closure
    cycles,      \* invocations of the process closure that returned Continue
    out_l,       \* receiver: the left output port's slice after the last cycle
    out_r,       \* receiver: the right output port's slice after the last cycle
    netPc,       \* the loop of start: sender "recv", "drain", "read"; receiver "poll", "recv_from",
                 \* "write"; "failed" once its `?` has met an error
    buffer,      \* the loop's [0; PACKET_SIZE] buffer
    net_space,   \* receiver loop: its rb_space
    sent,        \* sender: the datagrams given to socket.send, in order
    arrived,     \* receiver: <<datagrams, bytes>> the socket has delivered so far
    peer,        \* receiver: the byte stream the sending peer cuts its datagrams from
    hist         \* what has happened, kept for the claims

vars == <<io, argv, args, mainPc, stderr, reached, sched, host, rb, chan, cbPc, cb_space,
          scratch, captured, cycles, out_l, out_r, netPc, buffer, net_space, sent,
          arrived, peer, hist>>

\* hist.cb: the running (or last) invocation of the closure: the cursors when
\* it began, the space it observed, the messages it has sent, whether it took
\* the overrun / underrun branch, the bytes its ring-buffer call moved and
\* whether those were fewer than it asked for.
\* hist.netShort: whether the loop's last ring-buffer call moved fewer bytes
\* than it asked for.
\* hist.written / hist.read: every byte written to / read from the ring buffer.
\* hist.wire: the last datagram's length on the wire; hist.exact: the payloads
\* of the datagrams of wire length PACKET_SIZE that the loop enqueued.
\* hist.dropped: closure cycles that met an overrun.
\* hist.due: sender: the bytes the cycles that returned without an overrun
\* were given to write; hist.marks: for each Ready in the channel, hist.due
\* when it was sent.
\* hist.kept: receiver: for each datagram the loop wrote to the ring buffer,
\* the bytes that had arrived before it; hist.odd: a datagram of another
\* length than PACKET_SIZE has arrived.
NoCb ==
    [wp |-> 0, rp |-> 0, space |-> 0, msgs |-> << >>, starved |-> FALSE, moved |-> 0,
     short |-> FALSE]

NoHist ==
    [cb |-> NoCb, netShort |-> FALSE, written |-> << >>, read |-> << >>,
     wire |-> 0, exact |-> << >>, dropped |-> 0, due |-> 0, marks |-> << >>,
     kept |-> << >>, odd |-> FALSE]

\* ------------------------------------------------------------ main.rs

\* str::parse::<SocketAddr>().ok(): Some(address) for "ip:port", else None
ParseSocketAddr(word) ==
    CASE word = "127.0.0.1:5000" -> << [ip |-> <<127, 0, 0, 1>>, port |-> 5000] >>
      [] word = "10.0.0.2:6000" -> << [ip |-> <<10, 0, 0, 2>>, port |-> 6000] >>
      [] OTHER -> << >>

\* Option::and_then(|addr| addr.parse().ok()) on the optional second word
ParseSendAddr(rest) == IF rest = << >> THEN << >> ELSE ParseSocketAddr(rest[1])

\* parse_args: the try block is None when the first word is missing or does
\* not parse
parse_args(words) ==
    IF words = << >> THEN << >>
    ELSE IF ParseSocketAddr(words[1]) = << >> THEN << >>
    ELSE << [bind_addr |-> ParseSocketAddr(words[1])[1],
             send_addr |-> ParseSendAddr(Tail(words))] >>

\* the command lines tried: no word, one word, two words, each word a socket
\* address or not
ArgvChoices ==
    {<< >>, <<"localhost">>, <<"127.0.0.1:5000">>,
     <<"127.0.0.1:5000", "localhost">>, <<"127.0.0.1:5000", "10.0.0.2:6000">>,
     <<"localhost", "10.0.0.2:6000">>}

\* the port lengths the host may hand the sender's closure ...
SenderCycles == {<<60, 60>>, <<64, 64>>, <<2048, 2048>>, <<60, 61>>, <<16385, 16385>>}

\* ... and the receiver's
ReceiverCycles == {<<60, 60>>, <<60, 61>>, <<16385, 16385>>}

\* the lengths on the wire of the datagrams a peer may send
WireLengths == {479, 480, 481}

\* everything but the command line, before main has run
Constructed ==
    /\ args = << >>
    /\ stderr = << >>
    /\ reached = {}
    /\ sched = "free"
    /\ host = <<0, 0>>
    /\ rb = RingBufferNew(RING_BUFFER_SIZE)
    /\ chan = << >>
    /\ cbPc = "idle"
    /\ cb_space = 0
    /\ scratch = Zeros(ScratchLen * SizeOfF32)
    /\ captured = 0
    /\ cycles = 0
    /\ out_l = << >>
    /\ out_r = << >>
    /\ netPc = "none"
    /\ buffer = Zeros(PACKET_SIZE)
    /\ net_space = 0
    /\ sent = << >>
    /\ arrived = <<0, 0>>
    /\ peer = << >>
    /\ hist = NoHist

\* no call of interleave / deinterleave outside the closures
NoIo == [pc |-> "none", l |-> << >>, r |-> << >>, mixed |-> << >>, back |-> << >>]

Init ==
    /\ io = NoIo
    /\ argv \in ArgvChoices
    /\ mainPc = "parse_args"
    /\ Constructed

pipeline == <<sched, host, rb, chan, cbPc, cb_space, scratch, captured, cycles, out_l,
              out_r, netPc, buffer, net_space, sent, arrived, peer, hist>>

\* main, lines 38-42: parse_args takes the words; without Args the usage
\* line and ExitCode::FAILURE
MainParseArgs ==
    /\ mainPc = "parse_args"
    /\ args' = parse_args(argv)
    /\ argv' = IF Len(argv) <= 2 THEN << >> ELSE SubSeq(argv, 3, Len(argv))
    /\ IF parse_args(argv) = << >>
       THEN /\ stderr' = Append(stderr, <<"USAGE">>)
            /\ mainPc' = "exit"
       ELSE /\ stderr' = stderr
            /\ mainPc' = "client_new"
    /\ UNCHANGED <<io, reached>>
    /\ UNCHANGED pipeline

\* main, lines 45-50: Client::new, which may fail
MainClientNew ==
    /\ mainPc = "client_new"
    /\ reached' = reached \cup {"client_new"}
    /\ \E ok \in BOOLEAN :
         IF ok
         THEN /\ stderr' = Append(stderr, <<"JACK system sample rate">>)
              /\ mainPc' = "start"
         ELSE /\ stderr' = Append(stderr, <<"unable to start JACK client">>)
              /\ mainPc' = "exit"
    /\ UNCHANGED <<io, argv, args>>
    /\ UNCHANGED pipeline

\* mutant: main exits without the error line
FatalSilent(error) ==
    /\ stderr' = stderr
    /\ mainPc' = "exit"

\* main, lines 58-59: start returned Err(error)
Fatal(error) ==
    /\ stderr' = Append(stderr, <<"[ERROR]", error>>)
    /\ mainPc' = "exit"

\* sender.rs line 112, receiver.rs line 117: the error of the loop's `?`
StartError == IF mainPc = "sender" THEN "unable to send data" ELSE "unable to receive data"

\* main, lines 53-59: the loop's `?` has left start.  Its locals are dropped
\* first: dropping the AsyncClient deactivates the JACK client, which lets an
\* invocation of the closure that is running finish; then main reports.
MainStartErr ==
    /\ mainPc \in {"sender", "receiver"}
    /\ netPc = "failed"
    /\ cbPc \in {"idle", "quit"}
    /\ Fatal(StartError)
    /\ UNCHANGED <<io, argv, args, reached>>
    /\ UNCHANGED pipeline

\* ------------------------------------------------------------ both closures

\* mutant: the validation compares the sample count with the capacity only
InvalidLengthsCapacityOnly(l, r) == l + r > ScratchLen

\* sender.rs lines 56-57, receiver.rs lines 60-61: the length validation
InvalidLengths(l, r) == (l + r > ScratchLen) \/ (l # r)

\* mutant: the bytes of one channel's samples
RequiredPerChannel(l, r) == l * SizeOfF32

\* sender.rs lines 65 and 67, receiver.rs lines 69 and 74: amount * size_of::<f32>()
Required(l, r) == (l + r) * SizeOfF32

\* ------------------------------------------------------------ sender.rs

SenderStartErrors ==
    <<"unable to register port", "unable to bind to address", "unable to connect",
      "unable to create ring buffer", "unable to activate client">>

\* the schedules and cycle sizes explored for the sender
SenderRuns == ({"free"} \X SenderCycles) \cup {<<"burst", <<60, 60>>>>}

\* start, lines 24-91: ports, socket, channel, ring buffer, activate_async;
\* any of them may fail, and start then returns the error.  k = 0: all succeed.
SenderStart ==
    /\ mainPc = "start"
    /\ args[1].send_addr # << >>
    /\ \E k \in 0..Len(SenderStartErrors) :
         /\ reached' = reached \cup {"sender_start"}
                         \cup (IF k = 0 \/ k >= 2 THEN {"bind"} ELSE {})
         /\ IF k = 0
            THEN /\ mainPc' = "sender"
                 /\ stderr' = stderr
                 /\ netPc' = "recv"
                 /\ \E run \in SenderRuns : sched' = run[1] /\ host' = run[2]
            ELSE /\ Fatal(SenderStartErrors[k])
                 /\ UNCHANGED <<netPc, sched, host>>
    /\ rb' = RingBufferNew(RING_BUFFER_SIZE)
    /\ UNCHANGED <<peer, io, argv, args, chan, cbPc, cb_space, scratch, captured, cycles, out_l,
                   out_r, buffer, net_space, sent, arrived, hist>>

SenderClosureMayRun ==
    IF sched = "free" THEN cycles < MaxCycles
    ELSE captured * 2 * SizeOfF32 < MaxPackets * PACKET_SIZE

SenderLoopMayRun ==
    sched = "free" \/ captured * 2 * SizeOfF32 >= (MaxPackets - 1) * PACKET_SIZE

\* the slices of the two input ports in a cycle that starts at frame base:
\* frame t carries the words 2t+1 (left) and 2t+2 (right)
PortL(base, n) == [i \in 1..n |-> (2 * (base + i - 1)) + 1]

PortR(base, n) == [i \in 1..n |-> (2 * (base + i - 1)) + 2]

\* lines 51-64: the closure takes the port slices, validates their lengths
\* (InvalidBufferLengths and Control::Quit) and queries the writer's space
SenderProcessBegin ==
    /\ mainPc = "sender"
    /\ cbPc = "idle"
    /\ SenderClosureMayRun
    /\ IF InvalidLengths(host[1], host[2])
       THEN /\ chan' = Append(chan, <<"InvalidBufferLengths">>)
            /\ cbPc' = "quit"
            /\ hist' = [hist EXCEPT !.cb = [NoCb EXCEPT !.wp = rb.write_ptr, !.rp = rb.read_ptr,
                                                        !.msgs = << <<"InvalidBufferLengths">> >>]]
            /\ UNCHANGED cb_space
       ELSE /\ cb_space' = WriteSpace(rb)
            /\ cbPc' = "checked"
            /\ hist' = [hist EXCEPT !.cb = [NoCb EXCEPT !.wp = rb.write_ptr, !.rp = rb.read_ptr,
                                                        !.space = WriteSpace(rb)]]
            /\ UNCHANGED chan
    /\ UNCHANGED <<peer, io, argv, args, mainPc, stderr, reached, sched, host, rb, scratch, captured,
                   cycles, out_l, out_r, netPc, buffer, net_space, sent, arrived>>

\* line 76: interleave(data_to_send_l, data_to_send_r).unwrap()
Interleaved(base, l, r) ==
    CHOOSE mixed \in {interleave(x, y)[1] : x \in {PortL(base, l)}, y \in {PortR(base, r)}} : TRUE

\* lines 72-80: `written`, the samples the zip of the scratch buffer with
\* the interleaved iterator stores
Written(l, r) == Min(ScratchLen, l + r)

\* lines 82-84: the bytes of interleave_channels_buffer[0..written]
SenderBytes(base, l, r) ==
    CHOOSE bytes \in {CastBytes(x, 1, Written(l, r)) : x \in {Interleaved(base, l, r)}} : TRUE

\* mutant: the test compares the space in bytes with the sample count
SenderOverrunInSamples(space, l, r) == space < l + r

\* line 65: the overrun test
SenderOverrun(space, l, r) == space < Required(l, r)

\* mutant: the bytes stay in the scratch buffer, the ring buffer is written
\* after Ready has been sent
SenderStoreLate(data) ==
    /\ scratch' = BCat(data, BDrop(scratch, BLen(data)))
    /\ rb' = rb
    /\ hist' = hist

\* lines 72-84: the interleaved samples are stored at the front of the
\* scratch buffer and their bytes are written to the ring buffer
SenderStore(data) ==
    /\ scratch' = BCat(data, BDrop(scratch, BLen(data)))
    /\ rb' = WriteBuffer(rb, data)
    /\ hist' = [hist EXCEPT !.cb.short = WriteSpace(rb) < BLen(data),
                            !.cb.moved = Min(BLen(data), WriteSpace(rb)),
                            !.written = BCat(@, BTake(data, WriteSpace(rb)))]

\* lines 65-85: Overrun, or interleave into the scratch buffer and write
SenderProcessWrite ==
    /\ mainPc = "sender"
    /\ cbPc = "checked"
    /\ cbPc' = "ready"
    /\ IF SenderOverrun(cb_space, host[1], host[2])
       THEN /\ chan' = Append(chan, <<"Overrun", Required(host[1], host[2]), cb_space>>)
            /\ hist' = [hist EXCEPT !.cb.msgs = Append(@, <<"Overrun", Required(host[1], host[2]), cb_space>>),
                                    !.cb.starved = TRUE,
                                    !.dropped = @ + 1]
            /\ UNCHANGED <<rb, scratch>>
       ELSE /\ \E data \in {SenderBytes(captured, host[1], host[2])} : SenderStore(data)
            /\ chan' = chan
    /\ captured' = captured + host[1]
    /\ UNCHANGED <<peer, io, argv, args, mainPc, stderr, reached, sched, host, cb_space, cycles,
                   out_l, out_r, netPc, buffer, net_space, sent, arrived>>

\* the bytes the cycles up to and including the running one had to write:
\* a cycle that met an overrun has none
CycleDue == hist.due + (IF hist.cb.starved THEN 0 ELSE Required(host[1], host[2]))

\* mutant: the channel is a rendezvous: the send waits for the loop's recv
SenderProcessReadyRendezvous ==
    /\ mainPc = "sender"
    /\ cbPc = "ready"
    /\ netPc = "recv"
    /\ chan = << >>
    /\ chan' = Append(chan, <<"Ready">>)
    /\ hist' = [hist EXCEPT !.cb.msgs = Append(@, <<"Ready">>),
                            !.due = CycleDue,
                            !.marks = Append(@, CycleDue)]
    /\ cbPc' = "idle"
    /\ cycles' = cycles + 1
    /\ cb_space' = 0
    /\ UNCHANGED <<peer, io, argv, args, mainPc, stderr, reached, sched, host, rb, scratch, captured,
                   out_l, out_r, netPc, buffer, net_space, sent, arrived>>

\* lines 87-88: Ready, Control::Continue (the closure's locals end here)
SenderProcessReady ==
    /\ mainPc = "sender"
    /\ cbPc = "ready"
    /\ chan' = Append(chan, <<"Ready">>)
    /\ hist' = [hist EXCEPT !.cb.msgs = Append(@, <<"Ready">>),
                            !.due = CycleDue,
                            !.marks = Append(@, CycleDue)]
    /\ cbPc' = "idle"
    /\ cycles' = cycles + 1
    /\ cb_space' = 0
    /\ UNCHANGED <<peer, io, argv, args, mainPc, stderr, reached, sched, host, rb, scratch, captured,
                   out_l, out_r, netPc, buffer, net_space, sent, arrived>>

\* lines 97-107: the blocking recv; a diagnostic is logged, Ready starts the
\* drain.  The closure, which owns the Sender, lives as long as the loop, so
\* recv never returns RecvError.
SenderNetRecv ==
    /\ mainPc = "sender"
    /\ netPc = "recv"
    /\ SenderLoopMayRun
    /\ chan # << >>
    /\ chan' = Tail(chan)
    /\ CASE Head(chan)[1] = "InvalidBufferLengths" ->
              /\ stderr' = Append(stderr, <<"[ERROR] invalid buffer lengths">>)
              /\ netPc' = "recv"
         [] Head(chan)[1] = "Overrun" ->
              /\ stderr' = Append(stderr, <<"[WARNING] overrun", Head(chan)[2], Head(chan)[3]>>)
              /\ netPc' = "recv"
         [] OTHER ->
              /\ stderr' = stderr
              /\ netPc' = "drain"
    /\ hist' = IF Head(chan)[1] = "Ready" THEN [hist EXCEPT !.marks = Tail(@)] ELSE hist
    /\ UNCHANGED <<peer, io, argv, args, mainPc, reached, sched, host, rb, cbPc, cb_space, scratch,
                   captured, cycles, out_l, out_r, buffer, net_space, sent, arrived>>

\* mutant: the loop reads as soon as any byte is readable
SenderHasPacketAny(space, buf) == space > 0

\* mutant: the loop leaves a packet that is exactly complete
SenderHasPacketStrict(space, buf) == space > BLen(buf)

\* line 108: ring_buffer_reader.space() >= buffer.len()
SenderHasPacket(space, buf) == space >= BLen(buf)

\* line 108: the while condition
SenderNetCheck ==
    /\ mainPc = "sender"
    /\ netPc = "drain"
    /\ SenderLoopMayRun
    /\ netPc' = IF SenderHasPacket(ReadSpace(rb), buffer) THEN "read" ELSE "recv"
    /\ UNCHANGED <<peer, io, argv, args, mainPc, stderr, reached, sched, host, rb, chan, cbPc,
                   cb_space, scratch, captured, cycles, out_l, out_r, buffer, net_space,
                   sent, arrived, hist>>

\* mutant: the slice sent is one byte short of the buffer
DataToSendShort(r, buf) == ReadData(r, BLen(buf) - 1)

\* line 109: the slice read_slice returns, the front of the buffer it filled
DataToSend(r, buf) == ReadData(r, BLen(buf))

\* lines 109-112: read_slice, then socket.send of the slice read; a failed
\* send ends the loop: `?` leaves start with the error
SenderNetSend ==
    /\ mainPc = "sender"
    /\ netPc = "read"
    /\ SenderLoopMayRun
    /\ LET data_to_send == DataToSend(rb, buffer)
       IN /\ buffer' = BCat(data_to_send, BDrop(buffer, BLen(data_to_send)))
          /\ rb' = ReadAdvance(rb, BLen(buffer))
          /\ hist' = [hist EXCEPT !.netShort = BLen(data_to_send) < BLen(buffer),
                                  !.read = BCat(@, data_to_send)]
          /\ \E ok \in BOOLEAN :
               IF ok
               THEN /\ sent' = Append(sent, data_to_send)
                    /\ netPc' = "drain"
                    /\ UNCHANGED <<mainPc, stderr>>
               ELSE /\ netPc' = "failed"
                    /\ sent' = sent
                    /\ UNCHANGED <<mainPc, stderr>>
    /\ UNCHANGED <<peer, io, argv, args, reached, sched, host, chan, cbPc, cb_space, scratch,
                   captured, cycles, out_l, out_r, net_space, arrived>>

Sender ==
    \/ SenderStart
    \/ SenderProcessBegin
    \/ SenderProcessWrite
    \/ SenderProcessReady
    \/ SenderNetRecv
    \/ SenderNetCheck
    \/ SenderNetSend

\* ------------------------------------------------------------ receiver.rs

ReceiverStartErrors ==
    <<"unable to register port", "unable to bind to address",
      "unable to create ring buffer", "unable to activate client">>

\* the bytes a sending peer's closure writes to its ring buffer in its
\* cycles a .. b of n frames (the first cycle is 0), of which the cycles in
\* `dropped` met an overrun (sender.rs lines 65-85); its loop sends them
\* PACKET_SIZE at a time
RECURSIVE PeerWritten(_, _, _, _)
PeerWritten(n, a, b, dropped) ==
    IF b < a THEN << >>
    ELSE IF a = b THEN (IF a \in dropped THEN << >> ELSE SenderBytes(a * n, n, n))
    ELSE CHOOSE bytes \in {BCat(PeerWritten(n, a, m, dropped),
                                PeerWritten(n, m + 1, b, dropped)) :
                             m \in {(a + b) \div 2}} : TRUE

\* the frames of the peer's cycle that met an overrun, and that cycle
PeerGapFrames == 90

PeerGapCycle == 1

\* a peer none of whose cycles met an overrun ...
PeerSteady == PeerWritten(60, 0, MaxPackets, {})

\* ... and one with cycles of 90 frames whose second cycle did
PeerGapped == PeerWritten(PeerGapFrames, 0, MaxDatagrams + 1, {PeerGapCycle})

\* the schedules, cycle sizes and peers explored for the receiver
ReceiverRuns ==
    ({"free"} \X ReceiverCycles \X {PeerSteady})
      \cup {<<"whole", <<90, 90>>, PeerSteady>>, <<"whole", <<60, 60>>, PeerGapped>>,
            <<"burst", <<60, 60>>, PeerSteady>>, <<"burst", <<2048, 2048>>, PeerSteady>>}

\* start, lines 28-97: ports, socket, channel, ring buffer, activate_async;
\* any of them may fail, and start then returns the error.  k = 0: all succeed.
ReceiverStart ==
    /\ mainPc = "start"
    /\ args[1].send_addr = << >>
    /\ \E k \in 0..Len(ReceiverStartErrors) :
         /\ reached' = reached \cup {"receiver_start"}
                         \cup (IF k = 0 \/ k >= 2 THEN {"bind"} ELSE {})
         /\ IF k = 0
            THEN /\ mainPc' = "receiver"
                 /\ stderr' = stderr
                 /\ netPc' = "poll"
                 /\ \E run \in ReceiverRuns :
                      sched' = run[1] /\ host' = run[2] /\ peer' = run[3]
            ELSE /\ Fatal(ReceiverStartErrors[k])
                 /\ UNCHANGED <<netPc, sched, host, peer>>
    /\ rb' = RingBufferNew(RING_BUFFER_SIZE)
    /\ UNCHANGED <<io, argv, args, chan, cbPc, cb_space, scratch, captured, cycles, out_l,
                   out_r, buffer, net_space, sent, arrived, hist>>

\* "burst": once the loop has taken the last datagram the closure goes on
\* until it has emptied the ring buffer
ReceiverClosureMayRun ==
    IF sched # "burst" THEN cycles < MaxCycles
    ELSE /\ arrived[1] >= MaxPackets - 1
         /\ \/ cycles < MaxCycles
            \/ arrived[1] = MaxPackets /\ netPc = "recv_from" /\ cycles < MaxPackets

ReceiverLoopMayRecv ==
    arrived[1] < (IF sched # "burst" THEN MaxDatagrams ELSE MaxPackets)

\* lines 55-68: the closure takes the port slices, validates their lengths
\* (InvalidBufferLengths and Control::Quit) and queries the reader's space
ReceiverProcessBegin ==
    /\ mainPc = "receiver"
    /\ cbPc = "idle"
    /\ ReceiverClosureMayRun
    /\ IF InvalidLengths(host[1], host[2])
       THEN /\ chan' = Append(chan, <<"InvalidBufferLengths">>)
            /\ cbPc' = "quit"
            /\ hist' = [hist EXCEPT !.cb = [NoCb EXCEPT !.wp = rb.write_ptr, !.rp = rb.read_ptr,
                                                        !.msgs = << <<"InvalidBufferLengths">> >>]]
            /\ UNCHANGED cb_space
       ELSE /\ cb_space' = ReadSpace(rb)
            /\ cbPc' = "checked"
            /\ hist' = [hist EXCEPT !.cb = [NoCb EXCEPT !.wp = rb.write_ptr, !.rp = rb.read_ptr,
                                                        !.space = ReadSpace(rb)]]
            /\ UNCHANGED chan
    /\ UNCHANGED <<peer, io, argv, args, mainPc, stderr, reached, sched, host, rb, scratch, captured,
                   cycles, out_l, out_r, netPc, buffer, net_space, sent, arrived>>

\* mutant: the test compares the space in bytes with the sample count
ReceiverUnderrunInSamples(space, l, r) == space < l + r

\* line 69: the underrun test
ReceiverUnderrun(space, l, r) == space < Required(l, r)

\* lines 71-72: slice.fill(0.0)
Silence(n) == [i \in 1..n |-> 0]

\* lines 84-91: port.iter_mut().zip(it).for_each(|(v, d)| *v = d): the port
\* slice takes the iterator's first items; a sample the iterator does not
\* reach keeps what the host left there (-1)
ZipInto(n, it) == [i \in 1..n |-> IF i \in DOMAIN it THEN it[i] ELSE -1]

\* lines 84-91: the two iterators are copied to the ports
ReceiverCopy(lr) ==
    /\ out_l' = ZipInto(host[1], lr[1])
    /\ out_r' = ZipInto(host[2], lr[2])

\* lines 79-83: read_buffer fills the front of the scratch buffer, which is
\* then deinterleaved.  The zips stop at the ports' lengths, so of the
\* scratch buffer's samples only the first `amount` are looked at.
ReceiverLoad(data, amount) ==
    /\ scratch' = BCat(data, BDrop(scratch, BLen(data)))
    /\ rb' = ReadAdvance(rb, amount * SizeOfF32)
    /\ \E samples \in {CastSamples(BTake(BCat(data, BDrop(scratch, BLen(data))),
                                          amount * SizeOfF32))} :
         \E lr \in {deinterleave(samples)[1]} : ReceiverCopy(lr)
    /\ hist' = [hist EXCEPT !.cb.short = BLen(data) < amount * SizeOfF32,
                            !.cb.moved = BLen(data),
                            !.read = BCat(@, data)]

\* lines 69-94: silence and Underrun, or read and deinterleave;
\* Control::Continue (the closure's locals end here)
ReceiverProcessFill ==
    /\ mainPc = "receiver"
    /\ cbPc = "checked"
    /\ cbPc' = "idle"
    /\ IF ReceiverUnderrun(cb_space, host[1], host[2])
       THEN /\ out_l' = Silence(host[1])
            /\ out_r' = Silence(host[2])
            /\ chan' = Append(chan, <<"Underrun", Required(host[1], host[2]), cb_space>>)
            /\ hist' = [hist EXCEPT !.cb.msgs = Append(@, <<"Underrun", Required(host[1], host[2]), cb_space>>),
                                    !.cb.starved = TRUE]
            /\ UNCHANGED <<rb, scratch>>
       ELSE /\ \E data \in {ReadData(rb, Required(host[1], host[2]))} :
                 ReceiverLoad(data, host[1] + host[2])
            /\ chan' = chan
    /\ cycles' = cycles + 1
    /\ captured' = captured + host[1]
    /\ cb_space' = 0
    /\ UNCHANGED <<peer, io, argv, args, mainPc, stderr, reached, sched, host, netPc, buffer,
                   net_space, sent, arrived>>

\* lines 104-111: the line logged for a message
LogLine(m) ==
    IF m[1] = "InvalidBufferLengths" THEN <<"[WARNING] invalid buffer lengths">>
    ELSE <<"[WARNING] underrun", m[2], m[3]>>

\* mutant: the loop takes one pending message in a pass (try_recv)
ReceiverNetPollOne ==
    /\ mainPc = "receiver"
    /\ netPc = "poll"
    /\ stderr' = IF chan = << >> THEN stderr ELSE Append(stderr, LogLine(Head(chan)))
    /\ chan' = IF chan = << >> THEN chan ELSE Tail(chan)
    /\ netPc' = "recv_from"
    /\ UNCHANGED <<peer, io, argv, args, mainPc, reached, sched, host, rb, cbPc, cb_space, scratch,
                   captured, cycles, out_l, out_r, buffer, net_space, sent, arrived, hist>>

\* lines 103-112: receiver.try_iter() takes every pending message, each is
\* logged
ReceiverNetPoll ==
    /\ mainPc = "receiver"
    /\ netPc = "poll"
    /\ stderr' = stderr \o [i \in 1..Len(chan) |-> LogLine(chan[i])]
    /\ chan' = << >>
    /\ netPc' = "recv_from"
    /\ UNCHANGED <<peer, io, argv, args, mainPc, reached, sched, host, rb, cbPc, cb_space, scratch,
                   captured, cycles, out_l, out_r, buffer, net_space, sent, arrived, hist>>

\* the datagram that arrives after `off` bytes have arrived: the next w
\* bytes of the peer's stream
Payload(off, w) == BTake(BDrop(peer, off), w)

\* line 116: recv_from copies the datagram's first bytes into the buffer,
\* as many as fit, and returns their number; the rest of a longer datagram
\* is discarded
Received(w, buf) == Min(w, BLen(buf))

\* lines 115-122 and 131-136: recv_from (an error ends start); a datagram of
\* another length is logged and dropped, else the writer's space is queried
ReceiverNetRecvFrom ==
    /\ mainPc = "receiver"
    /\ netPc = "recv_from"
    /\ ReceiverLoopMayRecv
    /\ \/ /\ netPc' = "failed"
          /\ UNCHANGED <<mainPc, stderr, buffer, net_space, arrived, hist>>
       \/ \E w \in (IF sched = "free" THEN WireLengths ELSE {PACKET_SIZE}) :
            /\ buffer' = BCat(BTake(Payload(arrived[2], w), Received(w, buffer)),
                              BDrop(buffer, Received(w, buffer)))
            /\ arrived' = <<arrived[1] + 1, arrived[2] + w>>
            /\ hist' = [hist EXCEPT !.wire = w, !.odd = @ \/ w # PACKET_SIZE]
            /\ IF Received(w, buffer) = BLen(buffer)
               THEN /\ net_space' = WriteSpace(rb)
                    /\ netPc' = "write"
                    /\ UNCHANGED <<mainPc, stderr>>
               ELSE /\ stderr' = Append(stderr, <<"[WARNING] invalid packet size", PACKET_SIZE, Received(w, buffer)>>)
                    /\ netPc' = "poll"
                    /\ UNCHANGED <<mainPc, net_space>>
    /\ UNCHANGED <<peer, io, argv, args, reached, sched, host, rb, chan, cbPc, cb_space, scratch,
                   captured, cycles, out_l, out_r, sent>>

\* mutant: the packet is written whatever the space
PacketFitsAlways(space, buf) == space >= 0

\* line 122: rb_space >= buffer.len()
PacketFits(space, buf) == space >= BLen(buf)

\* lines 122-130: the packet is written, or an overrun is logged and the
\* packet dropped
ReceiverNetWrite ==
    /\ mainPc = "receiver"
    /\ netPc = "write"
    /\ netPc' = "poll"
    /\ IF PacketFits(net_space, buffer)
       THEN /\ rb' = WriteBuffer(rb, buffer)
            /\ hist' = [hist EXCEPT !.netShort = WriteSpace(rb) < BLen(buffer),
                                    !.written = BCat(@, BTake(buffer, WriteSpace(rb))),
                                    !.exact = IF hist.wire = PACKET_SIZE THEN BCat(@, buffer) ELSE @,
                                    !.kept = Append(@, arrived[2] - hist.wire)]
            /\ stderr' = stderr
       ELSE /\ stderr' = Append(stderr, <<"[WARNING] overrun", BLen(buffer), net_space>>)
            /\ hist' = [hist EXCEPT !.dropped = @ + 1]
            /\ rb' = rb
    /\ net_space' = 0
    /\ UNCHANGED <<peer, io, argv, args, mainPc, reached, sched, host, chan, cbPc, cb_space, scratch,
                   captured, cycles, out_l, out_r, buffer, sent, arrived>>

Receiver ==
    \/ ReceiverStart
    \/ ReceiverProcessBegin
    \/ ReceiverProcessFill
    \/ ReceiverNetPoll
    \/ ReceiverNetRecvFrom
    \/ ReceiverNetWrite

Next ==
    \/ MainParseArgs
    \/ MainClientNew
    \/ MainStartErr
    \/ Sender
    \/ Receiver

Spec == Init /\ [][Next]_vars

\* An invocation of the closure that has begun goes on: the JACK thread runs
\* it.  Nothing is assumed of the thread that runs start's loop.
CallbackFairness ==
    /\ WF_vars(SenderProcessWrite)
    /\ WF_vars(SenderProcessReady)
    /\ WF_vars(ReceiverProcessFill)

SpecCallback == Spec /\ CallbackFairness

\* Both threads are scheduled: the host goes on invoking the closure, and
\* the thread of main goes on with start's loop and with what follows start.
\* The socket is not scheduled: no datagram has to arrive.
ThreadFairness ==
    /\ CallbackFairness
    /\ WF_vars(SenderProcessBegin)
    /\ WF_vars(ReceiverProcessBegin)
    /\ WF_vars(SenderNetRecv)
    /\ WF_vars(SenderNetCheck)
    /\ WF_vars(SenderNetSend)
    /\ WF_vars(ReceiverNetPoll)
    /\ WF_vars(ReceiverNetWrite)
    /\ WF_vars(MainStartErr)

FairSpec == Spec /\ ThreadFairness

\* ------------------------------------------- interleave / deinterleave alone

RECURSIVE Slices(_)
Slices(n) ==
    IF n = 0 THEN {<< >>}
    ELSE Slices(n - 1) \cup {Append(s, v) : s \in {t \in Slices(n - 1) : Len(t) = n - 1},
                                               v \in 0..MaxSample}

\* the functions are called with any two slices of at most MaxLen samples
InitInterleave ==
    /\ io \in [pc : {"args"}, l : Slices(MaxLen), r : Slices(MaxLen),
                mixed : {<< >>}, back : {<< >>}]
    /\ argv = << >>
    /\ mainPc = "none"
    /\ Constructed

\* sender.rs lines 11-14: interleave(l, r), its iterator collected
CallInterleave ==
    /\ io.pc = "args"
    /\ io' = [io EXCEPT !.pc = "mixed", !.mixed = interleave(io.l, io.r)]
    /\ UNCHANGED <<argv, args, mainPc, stderr, reached>>
    /\ UNCHANGED pipeline

\* receiver.rs lines 11-19: deinterleave of what interleave returned
CallDeinterleave ==
    /\ io.pc = "mixed"
    /\ io.mixed # << >>
    /\ io' = [io EXCEPT !.pc = "back", !.back = deinterleave(io.mixed[1])]
    /\ UNCHANGED <<argv, args, mainPc, stderr, reached>>
    /\ UNCHANGED pipeline

\* receiver.rs lines 11-19: deinterleave of the slice l, of any length
CallDeinterleaveFirst ==
    /\ io.pc = "args"
    /\ io' = [io EXCEPT !.pc = "split", !.back = deinterleave(io.l)]
    /\ UNCHANGED <<argv, args, mainPc, stderr, reached>>
    /\ UNCHANGED pipeline

\* sender.rs lines 11-14: interleave of what deinterleave returned
CallInterleaveAgain ==
    /\ io.pc = "split"
    /\ io.back # << >>
    /\ io' = [io EXCEPT !.pc = "again",
                        !.mixed = interleave(io.back[1][1], io.back[1][2])]
    /\ UNCHANGED <<argv, args, mainPc, stderr, reached>>
    /\ UNCHANGED pipeline

NextInterleave ==
    \/ CallInterleave
    \/ CallDeinterleave
    \/ CallDeinterleaveFirst
    \/ CallInterleaveAgain

SpecInterleave == InitInterleave /\ [][NextInterleave]_vars

\* ------------------------------------------------------------ claims

IsSender == "sender_start" \in reached

IsReceiver == "receiver_start" \in reached

\* C1: in the receiver, the bytes written to the ring buffer are exactly the
\* payloads of the datagrams whose length on the wire was PACKET_SIZE and
\* that the loop enqueued; a datagram of any other wire length (479, 481)
\* leaves none of its bytes in the ring buffer.
C1_OnlyExactDatagramsEnqueued == IsReceiver => hist.written = hist.exact

\* a command line that should get the usage line: no word, or a first or
\* second word that is no socket address
BadCommandLine(words) ==
    \/ words = << >>
    \/ \E i \in 1..Min(2, Len(words)) : ParseSocketAddr(words[i]) = << >>

\* C2: a start with no argument, or with a first or second address that
\* does not parse, prints the usage line and exits with failure; it reaches
\* neither the audio client's creation, nor a bind, nor a pipeline's start.
C2_BadArgumentsGetUsage ==
    [][(mainPc = "parse_args" /\ BadCommandLine(argv))
         => (mainPc' = "exit" /\ stderr' = << <<"USAGE">> >> /\ reached' = {})]_vars

\* the closure's last invocation got past its space test
SenderActed == IsSender /\ (cbPc = "ready" \/ (cbPc = "idle" /\ cycles > 0))

ReceiverActed == IsReceiver /\ cbPc = "idle" /\ cycles > 0

\* C3: a sender closure invocation that passes the length validation and
\* observes less writable space than 4 x its combined sample count writes
\* no byte (the write cursor stays where the invocation found it) and sends
\* exactly one Overrun, with expected = the bytes required and available =
\* the space observed (followed only by Ready).
C3_SenderOverrunPolicy ==
    (SenderActed /\ hist.cb.space < Required(host[1], host[2]))
      => /\ hist.cb.moved = 0
         /\ rb.write_ptr = hist.cb.wp
         /\ hist.cb.msgs \in
              { << <<"Overrun", Required(host[1], host[2]), hist.cb.space>> >>,
                << <<"Overrun", Required(host[1], host[2]), hist.cb.space>>, <<"Ready">> >> }

\* an invocation met an overrun after an earlier one had written
C3_Witness ==
    SenderActed /\ cbPc = "idle" /\ hist.cb.starved /\ BLen(hist.written) > 0

\* C4: a receiver closure invocation that passes the length validation and
\* observes fewer readable bytes than required leaves both output ports all
\* zero, sends exactly one Underrun with expected = the bytes required and
\* available = the count observed, and consumes nothing (the read cursor
\* stays where the invocation found it).
C4_ReceiverUnderrunPolicy ==
    (ReceiverActed /\ hist.cb.space < Required(host[1], host[2]))
      => /\ out_l = Silence(host[1])
         /\ out_r = Silence(host[2])
         /\ hist.cb.msgs = << <<"Underrun", Required(host[1], host[2]), hist.cb.space>> >>
         /\ hist.cb.moved = 0
         /\ rb.read_ptr = hist.cb.rp

\* an invocation met an underrun with some, but too few, bytes readable
C4_Witness == ReceiverActed /\ hist.cb.starved /\ hist.cb.space > 0

\* bytes written to the ring buffer and not yet read
Occupancy == BLen(hist.written) - BLen(hist.read)

\* C5: in both pipelines and under every interleaving, the occupancy stays
\* within 0 .. capacity and agrees with the cursors, no read returns a byte
\* that was not written, and no ring-buffer call moves fewer bytes than its
\* caller asked for: between a thread's space query and its write or read
\* the space it observed can only have grown.
C5_NoOverflowNoUnderflow ==
    (IsSender \/ IsReceiver)
      => /\ Occupancy \in 0..RING_BUFFER_SIZE
         /\ ReadSpace(rb) = Occupancy
         /\ ~hist.cb.short
         /\ ~hist.netShort
         /\ \A i \in 1..Len(hist.read) : hist.read[i][1] # 2
         /\ cbPc = "checked" =>
              (IF IsSender THEN WriteSpace(rb) ELSE ReadSpace(rb)) >= cb_space
         /\ netPc = "write" => WriteSpace(rb) >= net_space
         /\ netPc = "read" => ReadSpace(rb) >= PACKET_SIZE

\* the reader took bytes between the sender closure's space query and its write
C5_Witness == IsSender /\ cbPc = "checked" /\ WriteSpace(rb) > cb_space

\* C6: the bytes read from the ring buffer, in order, are a prefix of the
\* bytes written to it, and what is read next is the rest of them, also
\* once the cursors have wrapped around the end of the storage.
C6_FifoByteStream ==
    (IsSender \/ IsReceiver)
      => /\ IsPrefix(hist.read, hist.written)
         /\ BCat(hist.read, ReadData(rb, ReadSpace(rb))) = hist.written

\* more bytes than the storage holds have been read: the cursors wrapped
C6_Witness == IsSender /\ BLen(hist.read) > RING_BUFFER_SIZE

RECURSIVE Flatten(_)
Flatten(datagrams) ==
    IF datagrams = << >> THEN << >>
    ELSE BCat(Flatten(SubSeq(datagrams, 1, Len(datagrams) - 1)), datagrams[Len(datagrams)])

\* C7: every datagram the sender's loop sends is exactly PACKET_SIZE bytes
\* and the datagrams sent so far, concatenated, are a prefix of the bytes the
\* closure has written to the ring buffer.
C7_DatagramsArePackets ==
    IsSender
      => /\ \A i \in 1..Len(sent) : BLen(sent[i]) = PACKET_SIZE
         /\ IsPrefix(Flatten(sent), hist.written)

C7_Witness == IsSender /\ Len(sent) >= 3

\* the sender with 60 frames a cycle, its closure idle, every message
\* received and the drain that followed finished
Scenario1Settled ==
    /\ IsSender
    /\ mainPc = "sender"
    /\ host = <<60, 60>>
    /\ cbPc = "idle"
    /\ chan = << >>
    /\ netPc = "recv"

\* C8 as stated: after N cycles of 60 frames, once the loop has processed
\* every pending message, exactly N datagrams have been sent.
C8_OneDatagramPerCycle == Scenario1Settled => Len(sent) = cycles

\* C8 as amended: after N cycles of 60 frames, once the loop has processed
\* every pending message, the datagrams sent are N less the cycles that met
\* an overrun, each of PACKET_SIZE bytes.
C8_OneDatagramPerWrittenCycle ==
    Scenario1Settled
      => /\ Len(sent) = cycles - hist.dropped
         /\ \A i \in 1..Len(sent) : BLen(sent[i]) = PACKET_SIZE

C8_Witness == Scenario1Settled /\ cycles >= 2 /\ hist.dropped >= 1

\* C9: in the receiver's loop a datagram of PACKET_SIZE received bytes that
\* finds less than PACKET_SIZE writable is dropped: the ring buffer is left
\* as it is, one overrun warning is logged and the loop goes on to its next
\* iteration; one that finds room is appended in full.  The occupancy never
\* exceeds the capacity.
C9_ReceiverOverrunPolicy ==
    /\ [](IsReceiver => Occupancy <= RING_BUFFER_SIZE)
    /\ [][(mainPc = "receiver" /\ netPc = "write" /\ netPc' # "write")
            => IF net_space < PACKET_SIZE
               THEN /\ rb' = rb
                    /\ hist'.written = hist.written
                    /\ stderr' = Append(stderr, <<"[WARNING] overrun", PACKET_SIZE, net_space>>)
                    /\ netPc' = "poll"
               ELSE /\ BLen(buffer) = PACKET_SIZE
                    /\ hist'.written = BCat(hist.written, buffer)
                    /\ ReadSpace(rb') = ReadSpace(rb) + PACKET_SIZE
                    /\ stderr' = stderr
                    /\ netPc' = "poll"]_vars

\* a packet was dropped for an overrun
C9_Witness == IsReceiver /\ hist.dropped >= 1

\* C10: interleave(L, R) is None exactly for slices of unequal lengths and
\* otherwise yields L0, R0, L1, R1, ...; deinterleave is None exactly for a
\* slice of odd length and otherwise yields the samples at the even indices
\* as left and those at the odd indices as right; each undoes the other:
\* deinterleave(interleave(L, R)) = (L, R) and interleave(deinterleave(A)) = A.
C10_MutualInverses ==
    /\ io.pc \in {"mixed", "back"} =>
         /\ (io.mixed = << >>) <=> (Len(io.l) # Len(io.r))
         /\ io.mixed # << >> =>
              /\ Len(io.mixed[1]) = 2 * Len(io.l)
              /\ \A i \in 1..Len(io.l) :
                   /\ io.mixed[1][(2 * i) - 1] = io.l[i]
                   /\ io.mixed[1][2 * i] = io.r[i]
    /\ io.pc = "back" => io.back = << <<io.l, io.r>> >>
    /\ io.pc \in {"split", "again"} =>
         /\ (io.back = << >>) <=> (Len(io.l) % 2 = 1)
         /\ io.back # << >> =>
              /\ Len(io.back[1][1]) = Len(io.l) \div 2
              /\ Len(io.back[1][2]) = Len(io.l) \div 2
              /\ \A i \in 1..(Len(io.l) \div 2) :
                   /\ io.back[1][1][i] = io.l[(2 * i) - 1]
                   /\ io.back[1][2][i] = io.l[2 * i]
    /\ io.pc = "again" => io.mixed = << io.l >>

\* two different slices of the longest length went through both functions
C10_Witness == io.pc = "back" /\ Len(io.l) = MaxLen /\ io.l # io.r

\* the port lengths pass the closure's validation
ValidLengths == ~InvalidLengths(host[1], host[2])

\* The sender's loop reads whole packets only, so the readable bytes never
\* fall below their remainder modulo PACKET_SIZE while the closure writes
\* nothing: the writable space can never again reach what a cycle requires.
SenderStuck ==
    Required(host[1], host[2]) > (rb.size - 1) - (ReadSpace(rb) % PACKET_SIZE)

\* from such a state every step leaves the sender there, and nothing is written
SenderStuckForever ==
    [][(IsSender /\ ValidLengths /\ SenderStuck)
         => (SenderStuck' /\ hist'.written = hist.written)]_vars

\* C11: a sender whose cycle size passes the length validation never
\* reaches a state from which every future cycle is dropped for an overrun.
C11_SenderNeverStuck ==
    (IsSender /\ mainPc = "sender" /\ ValidLengths) => ~SenderStuck

\* the closure underruns and the loop overruns: no byte can move
ReceiverDeadlocked ==
    /\ ReadSpace(rb) < Required(host[1], host[2])
    /\ WriteSpace(rb) < PACKET_SIZE

\* from such a state every step leaves the ring buffer as it is
ReceiverDeadlockedForever ==
    [][(IsReceiver /\ ValidLengths /\ ReceiverDeadlocked) => rb' = rb]_vars

\* C12: a receiver whose cycle size passes the length validation never
\* reaches a state in which the closure underruns (readable < required) and
\* the loop overruns (writable < PACKET_SIZE) forever.
C12_ReceiverNeverDeadlocked ==
    (IsReceiver /\ mainPc = "receiver" /\ ValidLengths) => ~ReceiverDeadlocked

\* an invocation of the closure has begun and not returned
CallbackRunning ==
    mainPc \in {"sender", "receiver"} /\ cbPc \in {"checked", "ready"}

\* C13: in both pipelines an invocation of the closure that has begun runs
\* to its return (Continue or Quit) whatever the loop of start does: nothing
\* is assumed of the loop's thread, which may be blocked in a socket call,
\* have failed, or leave the diagnostics in the channel.  (The channel's
\* Receiver lives in start's frame and outlives the closure, so the
\* closure's sends do not fail; their results are discarded.)
C13_CallbackNeverWaits == CallbackRunning ~> ~CallbackRunning

\* an invocation is past its ring-buffer step while the loop has failed and
\* diagnostics lie unconsumed
C13_Witness ==
    IsSender /\ mainPc = "sender" /\ netPc = "failed" /\ cbPc = "ready" /\ Len(chan) >= 2

\* C18: only a failed socket.send (sender) or recv_from (receiver) ends the
\* loop; from then on the loop's thread does no socket operation and no
\* ring-buffer read or write; start returns only that way, main then prints
\* one "[ERROR] <message>" line and exits, and it does so eventually.
C18_SocketFailureFatal ==
    /\ [][(netPc # "failed" /\ netPc' = "failed")
            => \/ mainPc = "sender" /\ netPc = "read"
               \/ mainPc = "receiver" /\ netPc = "recv_from"]_vars
    /\ [][netPc = "failed"
            => /\ netPc' = "failed"
               /\ sent' = sent
               /\ arrived' = arrived
               /\ buffer' = buffer
               /\ IsSender => (rb'.read_ptr = rb.read_ptr /\ hist'.read = hist.read)
               /\ IsReceiver => (rb'.write_ptr = rb.write_ptr /\ hist'.written = hist.written)]_vars
    /\ [][(mainPc \in {"sender", "receiver"} /\ mainPc' # mainPc)
            => /\ netPc = "failed"
               /\ mainPc' = "exit"
               /\ stderr' = Append(stderr, <<"[ERROR]", StartError>>)]_vars
    /\ [][mainPc = "exit" => (mainPc' = "exit" /\ stderr' = stderr)]_vars
    /\ (netPc = "failed") ~> (mainPc = "exit")

\* main has reported a failed receive and exited
C18_Witness ==
    /\ IsReceiver
    /\ netPc = "failed"
    /\ mainPc = "exit"
    /\ arrived[1] >= 1
    /\ stderr[Len(stderr)] = <<"[ERROR]", "unable to receive data">>

\* the two port slices differ in length, or together hold more samples than
\* the scratch buffer
StructuralViolation == host[1] # host[2] \/ host[1] + host[2] > ScratchLen

\* the line the loop logs for InvalidBufferLengths
InvalidLine ==
    IF IsSender THEN <<"[ERROR] invalid buffer lengths">>
    ELSE <<"[WARNING] invalid buffer lengths">>

\* how many times the loop has logged InvalidBufferLengths
InvalidLogged == Cardinality({i \in 1..Len(stderr) : stderr[i] = InvalidLine})

\* the closure's side of the ring buffer has never moved
ClosureSideUntouched ==
    /\ IsSender => (rb.write_ptr = 0 /\ hist.written = << >> /\ sent = << >>)
    /\ IsReceiver => (rb.read_ptr = 0 /\ hist.read = << >>)
    /\ cycles = 0
    /\ captured = 0

\* C14: when the two channel lengths differ or the combined sample count
\* exceeds the scratch capacity, the closure's first invocation sends exactly
\* one InvalidBufferLengths and nothing else (no Ready, no Overrun or
\* Underrun), moves neither cursor of its side of the ring buffer, and
\* returns Quit; it is never invoked again: its state, its side of the ring
\* buffer and the messages it has sent never change afterwards.  The loop
\* logs the message once when it dequeues it, in a step that leaves main
\* running and the loop at its next blocking call.
C14_StructuralViolationQuits ==
    /\ [](StructuralViolation =>
            /\ cbPc \in {"idle", "quit"}
            /\ ClosureSideUntouched
            /\ cbPc = "idle" => (chan = << >> /\ InvalidLogged = 0 /\ hist.cb = NoCb)
            /\ cbPc = "quit" =>
                 /\ hist.cb.msgs = << <<"InvalidBufferLengths">> >>
                 /\ chan \in {<< >>, << <<"InvalidBufferLengths">> >>}
                 /\ InvalidLogged + Len(chan) = 1)
    /\ [][(StructuralViolation /\ cbPc = "quit") =>
            (cbPc' = "quit" /\ hist'.cb = hist.cb /\ scratch' = scratch
             /\ out_l' = out_l /\ out_r' = out_r)]_vars
    /\ [][(StructuralViolation /\ InvalidLogged' > InvalidLogged) =>
            /\ mainPc' = mainPc
            /\ mainPc \in {"sender", "receiver"}
            /\ netPc' \in {"recv", "recv_from"}]_vars

\* the capacity is exceeded, the message has been logged, the closure has quit
C14_Witness ==
    /\ IsSender
    /\ host[1] = host[2]
    /\ host[1] + host[2] > ScratchLen
    /\ cbPc = "quit"
    /\ chan = << >>
    /\ stderr[Len(stderr)] = <<"[ERROR] invalid buffer lengths">>
    /\ netPc = "recv"

\* the message sequences of a finished invocation of the sender's closure
SenderSequences(m) ==
    \/ m = << <<"InvalidBufferLengths">> >>
    \/ Len(m) = 1 /\ m[1] = <<"Ready">>
    \/ Len(m) = 2 /\ m[1][1] = "Overrun" /\ m[2] = <<"Ready">>

\* the Ready messages in the channel
PendingReady == {i \in 1..Len(chan) : chan[i] = <<"Ready">>}

\* C15: every finished invocation of the sender's closure has sent exactly
\* [InvalidBufferLengths], [Overrun, Ready] or [Ready], in that order; it has
\* sent [Ready] alone exactly when it wrote its cycle's bytes to the ring
\* buffer; a running invocation has sent at most its Overrun.  For every
\* Ready in the channel, hence for the one the loop dequeues, every byte of
\* its cycle and of the earlier cycles has been written to the ring buffer:
\* the loop has already read it or it is readable.
C15_SenderDiagnosticProtocol ==
    (IsSender /\ mainPc \in {"sender", "exit"}) =>
        /\ (cbPc = "quit" \/ (cbPc = "idle" /\ cycles > 0)) => SenderSequences(hist.cb.msgs)
        /\ (cbPc = "idle" /\ cycles > 0) =>
             /\ Len(hist.cb.msgs) = 1 <=> ~hist.cb.starved
             /\ ~hist.cb.starved => hist.cb.moved = Required(host[1], host[2])
             /\ hist.cb.starved => hist.cb.moved = 0
        /\ cbPc = "checked" => hist.cb.msgs = << >>
        /\ cbPc = "ready" =>
             /\ hist.cb.starved => (Len(hist.cb.msgs) = 1 /\ hist.cb.msgs[1][1] = "Overrun")
             /\ ~hist.cb.starved =>
                  (hist.cb.msgs = << >> /\ CycleDue <= BLen(hist.written))
        /\ Cardinality(PendingReady) = Len(hist.marks)
        /\ \A i \in 1..Len(hist.marks) :
             /\ hist.marks[i] <= BLen(hist.written)
             /\ hist.marks[i] - BLen(hist.read) <= ReadSpace(rb)

\* two cycles have written, the loop has drained the first and the second
\* cycle's Ready is still in the channel
C15_Witness ==
    /\ IsSender
    /\ cycles = 2
    /\ hist.dropped = 0
    /\ Len(sent) >= 1
    /\ chan = << <<"Ready">> >>
    /\ hist.marks = <<2 * Required(host[1], host[2])>>

\* a complete block of PACKET_SIZE bytes has been written to the ring buffer
\* and not yet been sent
UnsentBlock == (Len(sent) + 1) * PACKET_SIZE <= BLen(hist.written)

\* the loop is blocked in recv: it has received every message and finished
\* the drain the last Ready started
SenderLoopIdle == chan = << >> /\ netPc = "recv"

\* C16: with both threads scheduled and no failing send, a complete block of
\* PACKET_SIZE bytes written to the ring buffer is eventually sent; the
\* datagrams sent are, in order, the successive blocks of the bytes written,
\* each a whole block; and whenever the closure is not running and the loop
\* waits on the empty channel (every message received, the drain its last
\* Ready started finished), fewer than PACKET_SIZE bytes remain in the ring
\* buffer: the rest of the bytes written, which stay readable there and
\* belong to no datagram.
C16_SenderDrains ==
    /\ [](IsSender =>
            /\ \A i \in 1..Len(sent) : BLen(sent[i]) = PACKET_SIZE
            /\ Flatten(sent) = BTake(hist.written, Len(sent) * PACKET_SIZE))
    /\ []((IsSender /\ mainPc = "sender" /\ cbPc \in {"idle", "quit"} /\ SenderLoopIdle) =>
            /\ ReadSpace(rb) < PACKET_SIZE
            /\ ~UnsentBlock
            /\ BLen(hist.read) = Len(sent) * PACKET_SIZE
            /\ ReadData(rb, ReadSpace(rb)) = BDrop(hist.written, Len(sent) * PACKET_SIZE))
    /\ (IsSender /\ UnsentBlock) ~> (~UnsentBlock \/ netPc = "failed")

\* two cycles of 64 frames: two blocks have been sent and 64 bytes stay buffered
C16_Witness ==
    /\ IsSender
    /\ mainPc = "sender"
    /\ host = <<64, 64>>
    /\ cbPc = "idle"
    /\ SenderLoopIdle
    /\ cycles = 2
    /\ Len(sent) = 2
    /\ ReadSpace(rb) = 64

\* the receiver's loop has not ended
ReceiverLoopAlive == IsReceiver /\ mainPc = "receiver" /\ netPc # "failed"

\* C17 as stated: with both threads scheduled, every message the receiver's
\* closure has sent is eventually received and logged by the loop (as long
\* as the loop has not ended on a socket error).
C17_DiagnosticsEventuallyLogged ==
    (ReceiverLoopAlive /\ chan # << >>) ~> (chan = << >> \/ ~ReceiverLoopAlive)

\* C17 as amended: the loop receives and logs the pending messages, all of
\* them and in the order sent, at the top of each pass; a message sent while
\* the loop is not blocked in recv_from is therefore eventually logged, and
\* a message sent while it is blocked there stays in the channel, with those
\* of the later cycles, until a datagram has arrived.  Each invocation of
\* the closure adds at most one message.
C17_DiagnosticsLoggedEachPass ==
    /\ [][(ReceiverLoopAlive /\ netPc = "poll" /\ netPc' # "poll") =>
            /\ chan' = << >>
            /\ stderr' = stderr \o [i \in 1..Len(chan) |-> LogLine(chan[i])]]_vars
    /\ [][(ReceiverLoopAlive /\ netPc = "recv_from" /\ netPc' \in {"recv_from", "failed"}) =>
            (IsPrefixSeq(chan, chan') /\ Len(chan') <= Len(chan) + 1)]_vars
    /\ [](IsReceiver => Len(hist.cb.msgs) <= 1)
    /\ (ReceiverLoopAlive /\ chan # << >> /\ netPc \in {"poll", "write"})
         ~> (chan = << >> \/ ~ReceiverLoopAlive)

\* two cycles met an underrun while the loop was blocked in recv_from; the
\* loop has logged both after the datagram that followed
C17_Witness ==
    /\ ReceiverLoopAlive
    /\ cycles = 2
    /\ arrived[1] = 1
    /\ chan = << >>
    /\ Len(stderr) >= 2
    /\ stderr[Len(stderr)][1] = "[WARNING] underrun"
    /\ stderr[Len(stderr) - 1][1] = "[WARNING] underrun"

\* the bytes of a stereo frame: a left and a right sample
FrameBytes == 2 * SizeOfF32

\* in the byte string s, which begins `o` bytes into a stream, every run of
\* the captured signal that falls on a frame boundary of the stream begins
\* with a left sample (the words 2t+1), and every run does
RECURSIVE FramesAligned(_, _)
FramesAligned(s, o) ==
    \/ s = << >>
    \/ /\ Head(s)[1] = 1 => (Head(s)[2] - SizeOfF32 - o) % FrameBytes = 0
       /\ FramesAligned(Tail(s), o + RunLen(Head(s)))

\* the closure has finished its ring-buffer call in the running or last cycle
ClosureMoved ==
    \/ IsSender /\ cbPc = "ready"
    \/ cbPc = "idle" /\ cycles > 0

\* C19: in both pipelines every write to and read from the ring buffer moves
\* whole frames and all of them or none: the closure moves FrameBytes * n
\* bytes in a cycle of n frames, or nothing in a cycle that meets an overrun
\* or underrun; the loop moves PACKET_SIZE bytes a packet; no call moves
\* fewer bytes than asked.  Both cursors and the bytes stored between them
\* are therefore whole frames.  In the sender the bytes written and every
\* datagram begin with a left sample and alternate; in the receiver fed
\* datagrams of PACKET_SIZE bytes cut from such a stream, every frame on the
\* output ports is silence or a left sample of the capture on the left port
\* with the right sample of the same frame on the right port.
C19_FrameAlignment ==
    (IsSender \/ IsReceiver) =>
        /\ rb.write_ptr % FrameBytes = 0
        /\ rb.read_ptr % FrameBytes = 0
        /\ ReadSpace(rb) % FrameBytes = 0
        /\ BLen(hist.written) % FrameBytes = 0
        /\ BLen(hist.read) % FrameBytes = 0
        /\ ~hist.cb.short
        /\ ~hist.netShort
        /\ ClosureMoved =>
             hist.cb.moved = (IF hist.cb.starved THEN 0 ELSE FrameBytes * host[1])
        /\ IsSender =>
             /\ BLen(hist.read) % PACKET_SIZE = 0
             /\ FramesAligned(hist.written, 0)
             /\ \A i \in 1..Len(sent) : FramesAligned(sent[i], 0)
        /\ IsReceiver =>
             /\ BLen(hist.written) = PACKET_SIZE * Len(hist.kept)
             /\ ~hist.odd =>
                  /\ DOMAIN out_l = DOMAIN out_r
                  /\ \A i \in DOMAIN out_l :
                       \/ out_l[i] = 0 /\ out_r[i] = 0
                       \/ /\ out_l[i] = PortL((out_l[i] - 1) \div 2, 1)[1]
                          /\ out_r[i] = PortR((out_l[i] - 1) \div 2, 1)[1]

\* the receiver has dropped a datagram on overrun, and a later cycle has
\* been filled from the ring buffer after the read cursor had moved
C19_Witness ==
    /\ IsReceiver
    /\ ~hist.odd
    /\ hist.dropped >= 1
    /\ cycles >= 2
    /\ cbPc = "idle"
    /\ ~hist.cb.starved
    /\ rb.read_ptr = 2 * FrameBytes * host[1]
    /\ out_l[1] = PortL(host[1], 1)[1]
    /\ out_r[1] = PortR(host[1], 1)[1]

\* the frames a packet carries
FramesPerPacket == PACKET_SIZE \div FrameBytes

\* the datagrams a .. b among those the receiver's loop wrote to the ring
\* buffer, one after the other
RECURSIVE KeptStream(_, _)
KeptStream(a, b) ==
    IF b < a THEN << >>
    ELSE IF a = b THEN BTake(BDrop(peer, hist.kept[a]), PACKET_SIZE)
    ELSE CHOOSE bytes \in {BCat(KeptStream(a, m), KeptStream(m + 1, b)) :
                             m \in {(a + b) \div 2}} : TRUE

\* the frame of the capture that is frame q of the peer's stream: the peer
\* sends its captured frames in order, less the cycles that met an overrun
PeerFrame(q) ==
    IF peer = PeerGapped /\ q >= PeerGapCycle * PeerGapFrames THEN q + PeerGapFrames ELSE q

\* the frame of the capture that is frame p of the stream the receiver's
\* loop wrote to the ring buffer: that stream is the peer's, less the
\* packets dropped
KeptFrame(p) ==
    PeerFrame((hist.kept[(p \div FramesPerPacket) + 1] \div FrameBytes) + (p % FramesPerPacket))

\* the frames the receiver's closure had output before its last cycle
FramesBefore == (BLen(hist.read) \div FrameBytes) - host[1]

\* the byte string s is whole cycles of n captured frames, in the order of
\* the capture
RECURSIVE WholeCycles(_, _)
WholeCycles(s, n) ==
    \/ s = << >>
    \/ /\ Head(s)[1] = 1
       /\ (Head(s)[2] - SizeOfF32) % (FrameBytes * n) = 0
       /\ (Head(s)[3] - SizeOfF32) % (FrameBytes * n) = 0
       /\ Len(s) > 1 => s[2][2] > Head(s)[3]
       /\ WholeCycles(Tail(s), n)

\* the receiver's closure has returned from a cycle it filled from the ring
\* buffer
FilledCycle ==
    IsReceiver /\ ~hist.odd /\ ValidLengths /\ cbPc = "idle" /\ cycles > 0 /\ ~hist.cb.starved

\* C20: the sender's closure captures the frames t = 0, 1, ... (PortL and
\* PortR).  The bytes it writes, which its loop sends PACKET_SIZE at a time,
\* are whole cycles of the capture in order, all of them but those of the
\* cycles that met an overrun.  In a receiver whose datagrams all have
\* PACKET_SIZE bytes and come once and in order from such a stream, the
\* bytes written to the ring buffer are the datagrams that were not dropped,
\* in order, and the frames output in a cycle without underrun are the next
\* frames of those bytes: output frame p is the captured frame KeptFrame(p),
\* which grows with p and skips only whole packets and whole cycles of the
\* sender.  Without overrun on either side output frame p is captured frame
\* p: the output is a prefix of the capture.
C20_EndToEndStream ==
    /\ (IsSender /\ ValidLengths) =>
         /\ WholeCycles(hist.written, host[1])
         /\ BLen(hist.written) + (hist.dropped * FrameBytes * host[1]) = FrameBytes * captured
         /\ IsPrefix(Flatten(sent), hist.written)
    /\ (IsReceiver /\ ~hist.odd) =>
         /\ \A j \in 1..Len(hist.kept) :
              /\ hist.kept[j] % PACKET_SIZE = 0
              /\ hist.kept[j] < arrived[2]
              /\ j > 1 => hist.kept[j] > hist.kept[j - 1]
         /\ Len(hist.kept) + hist.dropped + (IF netPc = "write" THEN 1 ELSE 0) = arrived[1]
         /\ hist.written = KeptStream(1, Len(hist.kept))
         /\ IsPrefix(hist.read, hist.written)
    /\ FilledCycle =>
         /\ \A i \in 1..host[1] :
              /\ out_l[i] = PortL(KeptFrame(FramesBefore + i - 1), 1)[1]
              /\ out_r[i] = PortR(KeptFrame(FramesBefore + i - 1), 1)[1]
         /\ (peer = PeerSteady /\ hist.dropped = 0) =>
              /\ out_l = PortL(FramesBefore, host[1])
              /\ out_r = PortR(FramesBefore, host[2])

\* the receiver's loop has dropped a packet on overrun and written a later
\* one: the cycle that reaches it outputs that packet's frames right after
\* those of the last packet before the gap
C20_Witness ==
    /\ FilledCycle
    /\ peer = PeerSteady
    /\ hist.dropped >= 1
    /\ FramesBefore = FramesPerPacket * (Len(hist.kept) - 1)
    /\ hist.kept[Len(hist.kept)] > PACKET_SIZE * (Len(hist.kept) - 1)
    /\ out_l[1] = PortL(hist.kept[Len(hist.kept)] \div FrameBytes, 1)[1]

\* the peer lost its second cycle of 90 frames to an overrun: the receiver's
\* second cycle of 60 frames outputs the captured frames 60 .. 89 and
\* 180 .. 209
C20_WitnessLostCycle ==
    /\ FilledCycle
    /\ peer = PeerGapped
    /\ cycles = 2
    /\ FramesBefore = 60
    /\ out_l[30] = PortL(89, 1)[1]
    /\ out_l[31] = PortL(180, 1)[1]
    /\ out_r[60] = PortR(209, 1)[1]

====
